---- MODULE Spec2Model ----
(***************************************************************************)
(* Model of src/main.py, the "Advanced MD Shaving" tab of the MD shaving   *)
(* dashboard.  One pass of the script is a sequence of steps:              *)
(*   load_battery_database -> file_uploader/read_csv -> energy column      *)
(*   check -> battery selection -> sizing -> number_input -> totals ->     *)
(*   degradation table -> costs -> ROI -> export.                          *)
(* Every interaction re-runs the script from the top (Rerun).              *)
(*                                                                         *)
(* Numbers.  The event values, catalog ratings and widget values used here *)
(* are integers, for which Python's float arithmetic is exact.            *)
(* The table of the degradation section is carried as scaled integers,     *)
(* named with the scale: SOH_x100 is SOH_Percent * 100 and *_x10000 is     *)
(* kWh * 10000.  The amounts of the financial section are exact fractions  *)
(* [num, den] in lowest terms; den = 0 stands for the inf and nan that a   *)
(* division of numpy numbers by zero returns.                              *)
(***************************************************************************)
EXTENDS Integers, Sequences, FiniteSets, TLC

\* ------------------------------------------------------------------------
\* Bounds of the model
\* ------------------------------------------------------------------------
\* longest uploaded table, in rows
MaxRows == 2
\* largest unit count the user types into "Number of Battery Units"
MaxOverride == 2

\* ------------------------------------------------------------------------
\* Program constants
\* ------------------------------------------------------------------------
\* st.number_input("Number of Battery Units", min_value=1, ...)
MinUnits == 1
\* st.number_input("Battery Cost (RM/kWh)", min_value=100.0, max_value=5000.0)
MinCostPerKWh == 100
MaxCostPerKWh == 5000
\* st.number_input("Installation Cost (%)", min_value=0.0, max_value=100.0)
MinInstallPct == 0
MaxInstallPct == 100
\* st.number_input("Data Period (days)", min_value=1, max_value=365)
MinPeriodDays == 1
MaxPeriodDays == 365
\* annual_savings = period_savings * (365 / data_period_days)
DaysPerYear == 365
\* roi_20_year = (annual_savings * 20 - total_system_cost) / ...
RoiYears == 20

\* the three columns of the uploaded table that the script reads
EnergyCol == "Energy to Shave (kWh)"
PeakCol == "Peak Load (kW)"
CostCol == "MD Cost Impact (RM)"

\* ------------------------------------------------------------------------
\* Battery catalog
\* ------------------------------------------------------------------------
\* One catalog entry with the twelve fields of the hardcoded entries.
\* c_rate_x100 is c_rate * 100 (0.25 -> 25); cycles_per_day 1.0 is 1.
BatteryEntry(model, c_rate_x100, power_kW, energy_kWh, cooling, weight_kg) ==
    [ company |-> "WEIHENG",
      model |-> model,
      c_rate_x100 |-> c_rate_x100,
      power_kW |-> power_kW,
      energy_kWh |-> energy_kWh,
      voltage_V |-> 832,
      lifespan_years |-> 15,
      eol_capacity_pct |-> 80,
      cycles_per_day |-> 1,
      cooling |-> cooling,
      weight_kg |-> weight_kg,
      dimensions_mm |-> <<1400, 1350, 2100>> ]

\* the fields a BatterySpec has
BatteryFields ==
    { "company", "model", "c_rate_x100", "power_kW", "energy_kWh", "voltage_V",
      "lifespan_years", "eol_capacity_pct", "cycles_per_day", "cooling",
      "weight_kg", "dimensions_mm" }

\* the dictionary returned in the FileNotFoundError branch
HardcodedOnMissing ==
    ( "TIANWU-50-233-0.25C" :>
         BatteryEntry("WH-TIANWU-50-233B", 25, 50, 233,
                      "Liquid (Battery), Air (PCS)", 2700)
   @@ "TIANWU-100-233-0.5C" :>
         BatteryEntry("WH-TIANWU-100-233B", 50, 100, 233,
                      "Liquid (Battery + PCS)", 2700)
   @@ "TIANWU-250-233-1C" :>
         BatteryEntry("WH-TIANWU-250-A", 100, 250, 233,
                      "Liquid (Battery), Air (PCS)", 2600) )

\* a fallback dictionary whose third entry has a different power rating
HardcodedOnJsonErrorDrift ==
    ( "TIANWU-50-233-0.25C" :>
         BatteryEntry("WH-TIANWU-50-233B", 25, 50, 233,
                      "Liquid (Battery), Air (PCS)", 2700)
   @@ "TIANWU-100-233-0.5C" :>
         BatteryEntry("WH-TIANWU-100-233B", 50, 100, 233,
                      "Liquid (Battery + PCS)", 2700)
   @@ "TIANWU-250-233-1C" :>
         BatteryEntry("WH-TIANWU-250-A", 100, 200, 233,
                      "Liquid (Battery), Air (PCS)", 2600) )

\* the dictionary returned in the json.JSONDecodeError branch
HardcodedOnJsonError ==
    ( "TIANWU-50-233-0.25C" :>
         BatteryEntry("WH-TIANWU-50-233B", 25, 50, 233,
                      "Liquid (Battery), Air (PCS)", 2700)
   @@ "TIANWU-100-233-0.5C" :>
         BatteryEntry("WH-TIANWU-100-233B", 50, 100, 233,
                      "Liquid (Battery + PCS)", 2700)
   @@ "TIANWU-250-233-1C" :>
         BatteryEntry("WH-TIANWU-250-A", 100, 250, 233,
                      "Liquid (Battery), Air (PCS)", 2600) )

\* a dictionary with no keys: the JSON text {} and the value before loading
NoEntries == [k \in {} |-> BatteryEntry("", 0, 0, 0, "", 0)]

\* Contents of vendor_battery_database.json that json.load accepts.
\* kind "dict" is a JSON object of entries, kind "list" any JSON value that
\* is not an object (it has no keys()).
VendorWellFormed ==
    [ kind |-> "dict",
      entries |-> ( "VENDOR-50-233" :>
                       BatteryEntry("WH-TIANWU-50-233B", 25, 50, 233,
                                    "Liquid (Battery), Air (PCS)", 2700)
                 @@ "VENDOR-120-100" :>
                       BatteryEntry("VENDOR-120", 120, 120, 100, "Air", 1500) ) ]

\* entries that break the BatterySpec invariant power_kW > 0, energy_kWh > 0
VendorDegenerate ==
    [ kind |-> "dict",
      entries |-> ( "ZERO-ENERGY" :>
                       BatteryEntry("Z-E", 25, 50, 0, "Air", 2700)
                 @@ "ZERO-POWER" :>
                       BatteryEntry("Z-P", 25, 0, 233, "Air", 2700)
                 @@ "NEGATIVE-ENERGY" :>
                       BatteryEntry("N-E", 25, 50, -233, "Air", 2700) ) ]

\* an entry that lacks the 'power_kW' key
VendorMissingKey ==
    [ kind |-> "dict",
      entries |-> ( "NO-POWER-KEY" :>
                       [ company |-> "WEIHENG", model |-> "X",
                         energy_kWh |-> 233 ] ) ]

VendorEmptyObject == [ kind |-> "dict", entries |-> NoEntries ]

VendorNotAnObject == [ kind |-> "list", entries |-> NoEntries ]

ParsedResources ==
    { VendorWellFormed, VendorDegenerate, VendorMissingKey,
      VendorEmptyObject, VendorNotAnObject }

\* What open()/json.load() do with vendor_battery_database.json:
\* "FileNotFoundError"  the file is missing
\* "JSONDecodeError"    the text is not JSON
\* "PermissionError"    the file exists and cannot be opened
\* "UnicodeDecodeError" the bytes are not text in the default encoding
\* "parsed"             json.load returned a value
ReadFaults ==
    { "FileNotFoundError", "JSONDecodeError", "PermissionError",
      "UnicodeDecodeError" }

\* the exceptions load_battery_database has an except clause for
HandledReadFaults == { "FileNotFoundError", "JSONDecodeError" }

\* ------------------------------------------------------------------------
\* Uploaded event table
\* ------------------------------------------------------------------------
\* Rows an uploaded CSV is made of.  The first two are rows of the example
\* table of the script; the third is all zero; the fourth needs more energy
\* than power and has a negative cost impact that cancels the first row's.
RowVals ==
    { [ energy |-> 75, peak |-> 850, cost |-> 1245 ],
      [ energy |-> 110, peak |-> 920, cost |-> 1680 ],
      [ energy |-> 0, peak |-> 0, cost |-> 0 ],
      [ energy |-> 400, peak |-> 80, cost |-> -1245 ] }

RowSeqs == UNION { [1..n -> RowVals] : n \in 0..MaxRows }

\* the columns of expected_columns that no later step reads
OtherExpectedColumns ==
    { "Start Date", "Start Time", "End Date", "End Time", "Excess (kW)",
      "Duration (min)", "Energy to Shave (Peak Period Only)" }

\* expected_columns
ExpectedColumns == { EnergyCol, PeakCol, CostCol } \cup OtherExpectedColumns

\* sets of columns the header of the upload may declare: any of the three
\* columns that are read, with the seven others all absent or all present
ColumnSets ==
    { read \cup other : read \in SUBSET { EnergyCol, PeakCol, CostCol },
                        other \in { {}, OtherExpectedColumns } }

\* missing_cols = [col for col in expected_columns if col not in df.columns]
MissingCols(columns) == ExpectedColumns \ columns

\* the value of df before a file has been read
NoData == [ columns |-> {}, rows |-> <<>> ]

\* df["..."].sum() over the rows; 0 for a table without rows
RECURSIVE ColumnSum(_, _)
ColumnSum(rows, col) ==
    IF rows = <<>> THEN 0
    ELSE LET v == IF col = EnergyCol THEN Head(rows).energy
                  ELSE IF col = PeakCol THEN Head(rows).peak
                  ELSE Head(rows).cost
         IN v + ColumnSum(Tail(rows), col)

\* df["Peak Load (kW)"].max() over a table with at least one row
RECURSIVE ColumnMax(_)
ColumnMax(rows) ==
    IF Len(rows) = 1 THEN Head(rows).peak
    ELSE LET m == ColumnMax(Tail(rows))
         IN IF Head(rows).peak >= m THEN Head(rows).peak ELSE m

\* the test "Energy to Shave (kWh)" in df.columns, always true
AnyColumnsAccepted(columns) == TRUE

\* the test "Energy to Shave (kWh)" in df.columns
HasEnergyColumn(columns) == EnergyCol \in columns

\* ------------------------------------------------------------------------
\* Sizing arithmetic
\* ------------------------------------------------------------------------
\* floor(a / b) + 0: rounds the quotient down instead of up
FloorDiv(a, b) ==
    IF b > 0 THEN a \div b ELSE (-a) \div (-b)

\* math.ceil(a / b) for b # 0
CeilDiv(a, b) ==
    IF b > 0 THEN -((-a) \div b) ELSE -(a \div (-b))

\* min(a, b)
Min2(a, b) == IF a <= b THEN a ELSE b

\* max(batteries_for_energy, batteries_for_power)
Max2(a, b) == IF a >= b THEN a ELSE b

\* ------------------------------------------------------------------------
\* Degradation table
\* ------------------------------------------------------------------------
Year == << 0, 1, 2, 3, 4, 5, 6, 7, 8, 9, 10,
           11, 12, 13, 14, 15, 16, 17, 18, 19, 20 >>

\* a table whose year-6 and year-7 values are exchanged
SOH_x100_Swapped ==
    << 10000, 9378, 9285, 9192, 9099, 9006, 8820, 8913, 8727, 8634,
       8541, 8448, 8355, 8262, 8169, 7995, 7548, 7101, 6654, 6207, 6048 >>

\* a table that keeps the 0.93 step up to year 15 (80.76 there)
SOH_x100_LinearTo15 ==
    << 10000, 9378, 9285, 9192, 9099, 9006, 8913, 8820, 8727, 8634,
       8541, 8448, 8355, 8262, 8169, 8076, 7548, 7101, 6654, 6207, 6048 >>

\* SOH_Percent * 100
SOH_x100 ==
    << 10000, 9378, 9285, 9192, 9099, 9006, 8913, 8820, 8727, 8634,
       8541, 8448, 8355, 8262, 8169, 7995, 7548, 7101, 6654, 6207, 6048 >>

\* degradation_df with its two derived columns, for one total_energy.
\* Effective_x10000 = (SOH_Percent / 100) * total_energy, in 1/10000 kWh
\* Loss_x10000      = total_energy - Effective_Capacity_kWh, in 1/10000 kWh
DegradationFrame(total) ==
    [ i \in 1..Len(Year) |->
        [ Year |-> Year[i],
          SOH_x100 |-> SOH_x100[i],
          Effective_x10000 |-> SOH_x100[i] * total,
          Loss_x10000 |-> total * 10000 - SOH_x100[i] * total ] ]

\* The values v / 10000 can round to at a step of unit / 10000, in 1/10000:
\* the nearest multiple of unit, and both neighbours when v lies exactly
\* halfway, where the float's representation error decides.
RoundDecimals(v, unit) ==
    LET q == v \div unit
        r == v % unit
    IN IF 2 * r < unit THEN { q * unit }
       ELSE IF 2 * r > unit THEN { (q + 1) * unit }
       ELSE { q * unit, (q + 1) * unit }

\* rounding of the capacity columns to two decimals
DisplayRoundTwoDecimals(v) == RoundDecimals(v, 100)

\* display_df[...].round(1) on the two capacity columns
DisplayRound(v) == RoundDecimals(v, 1000)

\* display_df, the table shown under "Capacity Degradation Table"; each
\* capacity cell is the set of values the rounding can show there.
\* SOH_Percent.round(2) leaves the two-decimal table values as they are.
DisplayFrame(frame) ==
    [ i \in DOMAIN frame |->
        [ Year |-> frame[i].Year,
          SOH_x100 |-> frame[i].SOH_x100,
          Effective_x10000 |-> DisplayRound(frame[i].Effective_x10000),
          Loss_x10000 |-> DisplayRound(frame[i].Loss_x10000) ] ]

\* ------------------------------------------------------------------------
\* Financial arithmetic
\* ------------------------------------------------------------------------
Abs(x) == IF x < 0 THEN -x ELSE x

RECURSIVE Gcd(_, _)
Gcd(a, b) == IF b = 0 THEN a ELSE Gcd(b, a % b)

Sign(x) == IF x > 0 THEN 1 ELSE IF x < 0 THEN -1 ELSE 0

\* the fraction n / d in lowest terms with a positive denominator;
\* n / 0 is inf, -inf or nan: [num |-> 1, -1 or 0, den |-> 0]
Rat(n, d) ==
    IF d = 0 THEN [ num |-> Sign(n), den |-> 0 ]
    ELSE LET g == Gcd(Abs(n), Abs(d))
         IN [ num |-> Sign(d) * (n \div g), den |-> Abs(d) \div g ]

\* a * b, cancelling across before multiplying
RatMul(a, b) ==
    LET x == Rat(a.num, b.den)
        y == Rat(b.num, a.den)
    IN Rat(x.num * y.num, x.den * y.den)

\* a / b
RatDiv(a, b) ==
    IF b.num = 0 THEN Rat(a.num, 0)
    ELSE RatMul(a, [ num |-> b.den * Sign(b.num), den |-> Abs(b.num) ])

\* a + b
RatAdd(a, b) == Rat(a.num * b.den + b.num * a.den, a.den * b.den)

\* a - b
RatSub(a, b) == Rat(a.num * b.den - b.num * a.den, a.den * b.den)

\* the whole number n as a fraction
RatInt(n) == [ num |-> n, den |-> 1 ]

\* a > 0
RatPositive(a) == a.den > 0 /\ a.num > 0

\* the test annual_savings >= 0
SavingsNotNegative(annual) == annual.den > 0 /\ annual.num >= 0

\* the test annual_savings > 0
SavingsPositive(annual) == RatPositive(annual)

\* values typed into the three number inputs of the financial section
CostPerKWhVals == { 100, 800 }
InstallPctVals == { 0, 20 }
PeriodDaysVals == { 1, 30, 365 }

\* the value of an amount that has not been computed
NoQuotient == [ num |-> 0, den |-> 1 ]

\* ------------------------------------------------------------------------
\* State of one pass of the script
\* ------------------------------------------------------------------------
VARIABLES
    pc,                     \* the step the pass is at
    outcome,                \* how the pass ended, "running" until it has
    error,                  \* class of the exception raised, "none" if none
    messages,               \* the st.success/warning/error/info boxes shown
    computed,               \* the steps that have produced their values
    zero_divisor,           \* a division by a zero rating was evaluated
    vendor_file,            \* what open/json.load found on disk
    battery_db,             \* value returned by load_battery_database
    catalog_source,         \* "external", "hardcoded" or "unset"
    df,                     \* the uploaded table
    selected_battery,       \* key chosen in the selectbox
    battery_specs,          \* battery_db[selected_battery]
    total_energy_required,
    max_power_required,
    batteries_for_energy,
    batteries_for_power,
    recommended_batteries,
    override_units,         \* <<n>> when the user committed n, else <<>>
    num_batteries,
    total_power,
    total_energy,
    degradation_df,
    battery_cost_per_kwh,   \* value of the "Battery Cost (RM/kWh)" input
    installation_cost_pct,  \* value of the "Installation Cost (%)" input
    battery_cost,
    installation_cost,
    total_system_cost,
    data_period_days,
    annual_savings,
    simple_payback,
    roi_20_year,
    report                  \* 'Analysis Summary' of the generated report

ctlVars == << pc, outcome, error, messages, computed, zero_divisor >>
catalogVars == << vendor_file, battery_db, catalog_source >>
selectVars == << selected_battery, battery_specs >>
sizingVars ==
    << total_energy_required, max_power_required, batteries_for_energy,
       batteries_for_power, recommended_batteries >>
totalVars ==
    << override_units, num_batteries, total_power,
       total_energy >>
costVars ==
    << battery_cost_per_kwh, installation_cost_pct, battery_cost,
       installation_cost, total_system_cost >>
roiVars == << data_period_days, annual_savings, simple_payback, roi_20_year >>

vars ==
    << ctlVars, catalogVars, df, selectVars, sizingVars, totalVars,
       degradation_df, costVars, roiVars, report >>

\* vendor_battery_database.json before the pass has opened it
NotRead ==
    [ status |-> "unread",
      content |-> [ kind |-> "unset", entries |-> NoEntries ] ]

NoReport ==
    [ model |-> "", units |-> 0, power |-> 0, energy |-> 0,
      cost |-> NoQuotient ]

Init ==
    /\ pc = "load_battery_database"
    /\ outcome = "running"
    /\ error = "none"
    /\ messages = {}
    /\ computed = {}
    /\ zero_divisor = FALSE
    /\ vendor_file = NotRead
    /\ battery_db = [ kind |-> "unset", entries |-> NoEntries ]
    /\ catalog_source = "unset"
    /\ df = NoData
    /\ selected_battery = ""
    /\ battery_specs = NoEntries
    /\ total_energy_required = 0
    /\ max_power_required = 0
    /\ batteries_for_energy = 0
    /\ batteries_for_power = 0
    /\ recommended_batteries = 0
    /\ override_units = <<>>
    /\ num_batteries = 0
    /\ total_power = 0
    /\ total_energy = 0
    /\ degradation_df = <<>>
    /\ battery_cost_per_kwh = 0
    /\ installation_cost_pct = 0
    /\ battery_cost = NoQuotient
    /\ installation_cost = NoQuotient
    /\ total_system_cost = NoQuotient
    /\ data_period_days = 0
    /\ annual_savings = NoQuotient
    /\ simple_payback = NoQuotient
    /\ roi_20_year = NoQuotient
    /\ report = NoReport

\* An exception raised inside the try block of the upload section: the
\* except Exception clause shows "Error reading file" and the pass ends.
CaughtByUploadTry(e) ==
    /\ error' = e
    /\ messages' = messages \cup { "error_reading_file" }
    /\ outcome' = "error_reported"
    /\ pc' = "end"

\* ------------------------------------------------------------------------
\* load_battery_database() and the call battery_db = load_battery_database()
\* ------------------------------------------------------------------------
LoadHardcoded(fault) ==
    /\ vendor_file' = [ NotRead EXCEPT !.status = fault ]
    /\ battery_db' =
          [ kind |-> "dict",
            entries |-> IF fault = "FileNotFoundError"
                        THEN HardcodedOnMissing ELSE HardcodedOnJsonError ]
    /\ catalog_source' = "hardcoded"
    /\ messages' = messages \cup
          { IF fault = "FileNotFoundError"
            THEN "warning_database_not_found"
            ELSE "error_database_json" }
    /\ pc' = "file_uploader"
    /\ UNCHANGED << outcome, error >>

LoadUncaught(fault) ==
    /\ vendor_file' = [ NotRead EXCEPT !.status = fault ]
    /\ error' = fault
    /\ outcome' = "uncaught_fault"
    /\ pc' = "end"
    /\ UNCHANGED << battery_db, catalog_source, messages >>

LoadBatteryDatabase ==
    /\ pc = "load_battery_database"
    /\ \/ \E parsed \in ParsedResources :
             /\ vendor_file' = [ status |-> "parsed", content |-> parsed ]
             /\ battery_db' = parsed
             /\ catalog_source' = "external"
             /\ messages' = messages \cup { "success_database_loaded" }
             /\ pc' = "file_uploader"
             /\ UNCHANGED << outcome, error >>
       \/ \E fault \in ReadFaults :
             IF fault \in HandledReadFaults
             THEN LoadHardcoded(fault)
             ELSE LoadUncaught(fault)
    /\ UNCHANGED << computed, zero_divisor, df, selectVars, sizingVars,
                    totalVars, degradation_df, costVars, roiVars, report >>

\* ------------------------------------------------------------------------
\* st.file_uploader and pd.read_csv
\* ------------------------------------------------------------------------
\* no file has been uploaded: the else branch of "uploaded_file is not None"
NoUpload ==
    /\ pc = "file_uploader"
    /\ messages' = messages \cup { "info_please_upload" }
    /\ outcome' = "awaiting_upload"
    /\ pc' = "end"
    /\ UNCHANGED << error, computed, zero_divisor, catalogVars, df,
                    selectVars, sizingVars, totalVars, degradation_df,
                    costVars, roiVars, report >>

\* pd.read_csv raises on a file that is not a table, else returns the frame;
\* the data overview then sums the energy column into total_energy when the
\* column is there, and the column validation shows which expected columns
\* are missing
ReadCsv ==
    /\ pc = "file_uploader"
    /\ \/ /\ CaughtByUploadTry("ParserError")
          /\ UNCHANGED << df, total_energy >>
       \/ \E columns \in ColumnSets, rows \in RowSeqs :
             /\ df' = [ columns |-> columns, rows |-> rows ]
             /\ total_energy' = IF EnergyCol \in columns
                                THEN ColumnSum(rows, EnergyCol)
                                ELSE total_energy
             /\ messages' = messages \cup { "success_file_uploaded" } \cup
                    ( IF MissingCols(columns) # {}
                      THEN { "warning_missing_columns",
                             "info_analysis_continues" }
                      ELSE { "success_all_columns_found" } )
             /\ pc' = "column_check"
             /\ UNCHANGED << outcome, error >>
    /\ UNCHANGED << computed, zero_divisor, catalogVars, selectVars,
                    sizingVars, override_units,
                    num_batteries, total_power, degradation_df, costVars,
                    roiVars, report >>

\* if "Energy to Shave (kWh)" in df.columns: ... else: st.error(...)
ColumnCheck ==
    /\ pc = "column_check"
    /\ IF HasEnergyColumn(df.columns)
       THEN /\ pc' = "select_battery"
            /\ UNCHANGED << outcome, messages >>
       ELSE /\ messages' = messages \cup { "error_energy_column_not_found" }
            /\ outcome' = "rejected"
            /\ pc' = "end"
    /\ UNCHANGED << error, computed, zero_divisor, catalogVars, df,
                    selectVars, sizingVars, totalVars, degradation_df,
                    costVars, roiVars, report >>

\* ------------------------------------------------------------------------
\* Battery selection and the specification metrics
\* ------------------------------------------------------------------------
\* keys read by the six st.metric calls under the selectbox
MetricKeys ==
    { "power_kW", "energy_kWh", "c_rate_x100", "voltage_V", "lifespan_years",
      "eol_capacity_pct" }

SelectBattery ==
    /\ pc = "select_battery"
    /\ IF battery_db.kind # "dict"
       THEN \* list(battery_db.keys()) on a value that is not a dict
            /\ CaughtByUploadTry("AttributeError")
            /\ UNCHANGED selectVars
       ELSE IF DOMAIN battery_db.entries = {}
       THEN \* the selectbox has no options and returns None
            /\ CaughtByUploadTry("KeyError")
            /\ UNCHANGED selectVars
       ELSE \E key \in DOMAIN battery_db.entries :
               /\ selected_battery' = key
               /\ battery_specs' = battery_db.entries[key]
               /\ IF MetricKeys \subseteq DOMAIN battery_db.entries[key]
                  THEN /\ pc' = "sizing"
                       /\ UNCHANGED << outcome, error, messages >>
                  ELSE CaughtByUploadTry("KeyError")
    /\ UNCHANGED << computed, zero_divisor, catalogVars, df, sizingVars,
                    totalVars, degradation_df, costVars, roiVars, report >>

\* ------------------------------------------------------------------------
\* Battery sizing calculation
\* ------------------------------------------------------------------------
\* The exception math.ceil raises on the quotient x / 0 of a numpy number x
\* (numpy returns inf or nan for it and does not raise):
\* OverflowError on +-inf, ValueError on nan.
CeilOfNumpyQuotientByZero(x) ==
    IF x = 0 THEN "ValueError" ELSE "OverflowError"

Sizing ==
    /\ pc = "sizing"
    /\ LET energy_kWh == battery_specs.energy_kWh
           power_kW == battery_specs.power_kW
           hasPeak == PeakCol \in df.columns
           \* max() of a column without rows is the float nan
           peakIsNan == hasPeak /\ df.rows = <<>>
           total == ColumnSum(df.rows, EnergyCol)
           maxp == IF hasPeak /\ df.rows # <<>> THEN ColumnMax(df.rows) ELSE 0
       IN /\ total_energy_required' = total
          /\ max_power_required' = maxp
          /\ IF energy_kWh = 0
             THEN \* total_energy_required / 0: the sum of a column without
                  \* rows is the int 0, of a column with rows a numpy number
                  /\ zero_divisor' = TRUE
                  /\ CaughtByUploadTry(
                        IF df.rows = <<>>
                        THEN "ZeroDivisionError"
                        ELSE CeilOfNumpyQuotientByZero(total))
                  /\ UNCHANGED << batteries_for_energy, batteries_for_power,
                                  recommended_batteries, computed >>
             ELSE /\ batteries_for_energy' = CeilDiv(total, energy_kWh)
                  /\ IF peakIsNan
                     THEN \* nan / 0 raises; else math.ceil(nan) raises
                          /\ zero_divisor' = (power_kW = 0)
                          /\ CaughtByUploadTry(
                                IF power_kW = 0
                                THEN "ZeroDivisionError"
                                ELSE "ValueError")
                          /\ UNCHANGED << batteries_for_power,
                                          recommended_batteries, computed >>
                     ELSE IF power_kW = 0
                     THEN /\ zero_divisor' = TRUE
                          /\ CaughtByUploadTry(
                                IF hasPeak
                                THEN CeilOfNumpyQuotientByZero(maxp)
                                ELSE "ZeroDivisionError")
                          /\ UNCHANGED << batteries_for_power,
                                          recommended_batteries, computed >>
                     ELSE /\ batteries_for_power' = CeilDiv(maxp, power_kW)
                          /\ recommended_batteries' =
                                Max2(CeilDiv(total, energy_kWh),
                                     CeilDiv(maxp, power_kW))
                          /\ computed' = computed \cup { "sizing" }
                          /\ messages' = messages \cup { "info_recommended" }
                          /\ pc' = "number_input"
                          /\ UNCHANGED << outcome, error, zero_divisor >>
    /\ UNCHANGED << catalogVars, df, selectVars, totalVars, degradation_df,
                    costVars, roiVars, report >>

\* unit counts a user may type into "Number of Battery Units"
TypedUnits == (-1)..MaxOverride

\* min_value=1: the widget commits a typed number only when it is not
\* below min_value
WidgetAccepts(n) == n >= MinUnits

\* the value st.number_input returns: the committed number when there is
\* one, else value=recommended_batteries
ReturnedUnits(committed, default) ==
    IF committed = <<>> THEN default ELSE committed[1]

\* st.number_input("Number of Battery Units", min_value=1,
\*                 value=recommended_batteries): the widget raises when the
\* default value is below min_value, else returns the default or the
\* number the user committed.
NumberInput ==
    /\ pc = "number_input"
    /\ IF recommended_batteries < MinUnits
       THEN /\ CaughtByUploadTry("StreamlitAPIException")
            /\ UNCHANGED << num_batteries, override_units >>
       ELSE /\ \E committed \in { <<>> } \cup { << n >> : n \in TypedUnits } :
                  /\ committed # <<>> => WidgetAccepts(committed[1])
                  /\ override_units' = committed
                  /\ num_batteries' =
                        ReturnedUnits(committed, recommended_batteries)
            /\ pc' = "total_specs"
            /\ UNCHANGED << outcome, error, messages >>
    /\ UNCHANGED << computed, zero_divisor, catalogVars, df, selectVars,
                    sizingVars, total_power, total_energy,
                    degradation_df, costVars, roiVars, report >>

\* total_power, total_energy and the four "Total System Specifications"
\* metrics, which read weight_kg and dimensions_mm
TotalSpecs ==
    /\ pc = "total_specs"
    /\ total_power' = num_batteries * battery_specs.power_kW
    /\ total_energy' = num_batteries * battery_specs.energy_kWh
    /\ IF { "weight_kg", "dimensions_mm" } \subseteq DOMAIN battery_specs
       THEN /\ computed' = computed \cup { "totals" }
            /\ pc' = "degradation"
            /\ UNCHANGED << outcome, error, messages >>
       ELSE /\ CaughtByUploadTry("KeyError")
            /\ UNCHANGED computed
    /\ UNCHANGED << zero_divisor, catalogVars, df, selectVars, sizingVars,
                    override_units, num_batteries,
                    degradation_df, costVars, roiVars, report >>

\* degradation_df with Effective_Capacity_kWh and Capacity_Loss_kWh
Degradation ==
    /\ pc = "degradation"
    /\ degradation_df' = DegradationFrame(total_energy)
    /\ computed' = computed \cup { "degradation" }
    /\ pc' = "costs"
    /\ UNCHANGED << outcome, error, messages, zero_divisor, catalogVars, df,
                    selectVars, sizingVars, totalVars, costVars, roiVars,
                    report >>

\* ------------------------------------------------------------------------
\* Financial analysis
\* ------------------------------------------------------------------------
Costs ==
    /\ pc = "costs"
    /\ \E per_kwh \in CostPerKWhVals, pct \in InstallPctVals :
          /\ per_kwh >= MinCostPerKWh
          /\ per_kwh <= MaxCostPerKWh
          /\ pct >= MinInstallPct
          /\ pct <= MaxInstallPct
          /\ battery_cost_per_kwh' = per_kwh
          /\ installation_cost_pct' = pct
          /\ LET cost == RatInt(total_energy * per_kwh)
                 installation == RatMul(cost, Rat(pct, 100))
             IN /\ battery_cost' = cost
                /\ installation_cost' = installation
                /\ total_system_cost' = RatAdd(cost, installation)
    /\ computed' = computed \cup { "costs" }
    /\ pc' = IF CostCol \in df.columns THEN "roi" ELSE "export"
    /\ UNCHANGED << outcome, error, messages, zero_divisor, catalogVars, df,
                    selectVars, sizingVars, totalVars, degradation_df,
                    roiVars, report >>

\* annual_savings * 20 / total_system_cost * 100: the cost is not deducted
Roi20YearCostNotDeducted(annual, cost) ==
    RatMul(RatDiv(RatMul(annual, RatInt(RoiYears)), cost), RatInt(100))

\* (annual_savings * 20 - total_system_cost) / total_system_cost * 100
Roi20Year(annual, cost) ==
    RatMul(RatDiv(RatSub(RatMul(annual, RatInt(RoiYears)), cost), cost),
           RatInt(100))

\* the block under: if "MD Cost Impact (RM)" in df.columns
Roi ==
    /\ pc = "roi"
    /\ \E days \in PeriodDaysVals :
          /\ days >= MinPeriodDays
          /\ days <= MaxPeriodDays
          /\ LET period_savings == ColumnSum(df.rows, CostCol)
                 annual == RatMul(RatInt(period_savings),
                                  Rat(DaysPerYear, days))
             IN /\ data_period_days' = days
                /\ annual_savings' = annual
                /\ IF SavingsPositive(annual)
                   THEN /\ simple_payback' =
                              RatDiv(total_system_cost, annual)
                        /\ roi_20_year' =
                              Roi20Year(annual, total_system_cost)
                        /\ computed' = computed \cup { "annual", "payback", "roi" }
                        /\ UNCHANGED messages
                   ELSE /\ messages' = messages \cup { "warning_no_savings" }
                        /\ computed' = computed \cup { "annual" }
                        /\ UNCHANGED << simple_payback, roi_20_year >>
    /\ pc' = "export"
    /\ UNCHANGED << outcome, error, zero_divisor, catalogVars, df, selectVars,
                    sizingVars, totalVars, degradation_df, costVars, report >>

\* ------------------------------------------------------------------------
\* Export
\* ------------------------------------------------------------------------
\* st.button("Generate Analysis Report") and the two download buttons
Export ==
    /\ pc = "export"
    /\ \E pressed \in BOOLEAN :
          IF pressed
          THEN /\ report' = [ model |-> selected_battery,
                              units |-> num_batteries,
                              power |-> total_power,
                              energy |-> total_energy,
                              cost |-> total_system_cost ]
               /\ messages' = messages \cup { "success_reports_generated" }
               /\ computed' = computed \cup { "export_offered", "report" }
          ELSE /\ computed' = computed \cup { "export_offered" }
               /\ UNCHANGED << report, messages >>
    /\ outcome' = "results"
    /\ pc' = "end"
    /\ UNCHANGED << error, zero_divisor, catalogVars, df, selectVars,
                    sizingVars, totalVars, degradation_df, costVars, roiVars >>

\* ------------------------------------------------------------------------
\* The next interaction runs the script again from the top
\* ------------------------------------------------------------------------
Rerun ==
    /\ pc = "end"
    /\ pc' = "load_battery_database"
    /\ outcome' = "running"
    /\ error' = "none"
    /\ messages' = {}
    /\ computed' = {}
    /\ zero_divisor' = FALSE
    /\ vendor_file' = NotRead
    /\ battery_db' = [ kind |-> "unset", entries |-> NoEntries ]
    /\ catalog_source' = "unset"
    /\ df' = NoData
    /\ selected_battery' = ""
    /\ battery_specs' = NoEntries
    /\ total_energy_required' = 0
    /\ max_power_required' = 0
    /\ batteries_for_energy' = 0
    /\ batteries_for_power' = 0
    /\ recommended_batteries' = 0
    /\ override_units' = <<>>
    /\ num_batteries' = 0
    /\ total_power' = 0
    /\ total_energy' = 0
    /\ degradation_df' = <<>>
    /\ battery_cost_per_kwh' = 0
    /\ installation_cost_pct' = 0
    /\ battery_cost' = NoQuotient
    /\ installation_cost' = NoQuotient
    /\ total_system_cost' = NoQuotient
    /\ data_period_days' = 0
    /\ annual_savings' = NoQuotient
    /\ simple_payback' = NoQuotient
    /\ roi_20_year' = NoQuotient
    /\ report' = NoReport

Next ==
    \/ LoadBatteryDatabase
    \/ NoUpload
    \/ ReadCsv
    \/ ColumnCheck
    \/ SelectBattery
    \/ Sizing
    \/ NumberInput
    \/ TotalSpecs
    \/ Degradation
    \/ Costs
    \/ Roi
    \/ Export
    \/ Rerun

Spec == Init /\ [][Next]_vars

\* ------------------------------------------------------------------------
\* Properties
\* ------------------------------------------------------------------------
\* the sizing step has run on a table with rows and a catalog entry whose
\* ratings are both positive
ValidSizing ==
    /\ "sizing" \in computed
    /\ df.rows # <<>>
    /\ \A i \in 1..Len(df.rows) : df.rows[i].energy >= 0
    /\ battery_specs.energy_kWh > 0
    /\ battery_specs.power_kW > 0

\* n is the ceiling of a / b, for b > 0
IsCeiling(n, a, b) == (n - 1) * b < a /\ a <= n * b

\* m is the largest Peak Load of the rows, or 0 without that column
IsPeakOrZero(m) ==
    IF PeakCol \in df.columns
    THEN /\ \E i \in 1..Len(df.rows) : df.rows[i].peak = m
         /\ \A i \in 1..Len(df.rows) : df.rows[i].peak <= m
    ELSE m = 0

\* C1: with rows present and both ratings positive, batteries_for_energy is
\* the ceiling of the summed Energy to Shave over energy_kWh,
\* batteries_for_power the ceiling of the largest Peak Load (0 without the
\* column) over power_kW, and the recommendation the larger of the two;
\* 185 kWh and 920 kW on a 233 kWh / 50 kW unit give 1, 19 and 19.
C1_SizingFormulas ==
    ValidSizing =>
       /\ total_energy_required = ColumnSum(df.rows, EnergyCol)
       /\ IsPeakOrZero(max_power_required)
       /\ IsCeiling(batteries_for_energy, total_energy_required,
                    battery_specs.energy_kWh)
       /\ IsCeiling(batteries_for_power, max_power_required,
                    battery_specs.power_kW)
       /\ recommended_batteries >= batteries_for_energy
       /\ recommended_batteries >= batteries_for_power
       /\ recommended_batteries \in
             { batteries_for_energy, batteries_for_power }
       /\ ( /\ total_energy_required = 185
            /\ max_power_required = 920
            /\ battery_specs.energy_kWh = 233
            /\ battery_specs.power_kW = 50 )
          => /\ batteries_for_energy = 1
             /\ batteries_for_power = 19
             /\ recommended_batteries = 19

C1_Witness ==
    /\ ValidSizing
    /\ total_energy_required = 185
    /\ max_power_required = 920
    /\ battery_specs.energy_kWh = 233
    /\ battery_specs.power_kW = 50
    /\ recommended_batteries = 19

\* C2: with rows present and both ratings positive, the recommendation the
\* sizing step produces is at least one unit, also when the summed energy
\* and the peak load are both zero, and the pass goes on to a unit count.
C2_RecommendedAtLeastOne ==
    /\ ValidSizing => recommended_batteries >= 1
    /\ (ValidSizing /\ pc = "end") => num_batteries >= 1

\* C3: a catalog entry with energy_kWh = 0 or power_kW = 0 is rejected by
\* a validation check: no division by a zero rating is ever evaluated and
\* the pass ends as a rejection, not as an arithmetic exception.
C3_ZeroRatingRejected ==
    /\ ~zero_divisor
    /\ ( /\ pc = "end"
         /\ MetricKeys \subseteq DOMAIN battery_specs
         /\ (battery_specs.energy_kWh = 0 \/ battery_specs.power_kW = 0) )
       => outcome = "rejected"

\* C4: whatever reading the catalog file and the upload do, no pass ends
\* in an exception that nothing catches.
C4_NoUncaughtFault == outcome # "uncaught_fault"

\* e is the built-in catalog: the three reference models, all fields set
IsReferenceCatalog(e) ==
    /\ DOMAIN e =
         { "TIANWU-50-233-0.25C", "TIANWU-100-233-0.5C", "TIANWU-250-233-1C" }
    /\ { << e[k].power_kW, e[k].energy_kWh, e[k].c_rate_x100 >> :
            k \in DOMAIN e }
         = { << 50, 233, 25 >>, << 100, 233, 50 >>, << 250, 233, 100 >> }
    /\ \A k \in DOMAIN e : DOMAIN e[k] = BatteryFields

\* C5: once load_battery_database has returned, battery_db is the parsed
\* file when the file parsed, and the built-in three-entry catalog when the
\* file was missing and likewise when it failed to parse; the source used
\* is reported and nothing is raised.
C5_CatalogFallback ==
    /\ vendor_file.status = "parsed" =>
          /\ battery_db = vendor_file.content
          /\ catalog_source = "external"
          /\ "success_database_loaded" \in messages
          /\ outcome # "uncaught_fault"
    /\ vendor_file.status \in { "FileNotFoundError", "JSONDecodeError" } =>
          /\ battery_db.kind = "dict"
          /\ IsReferenceCatalog(battery_db.entries)
          /\ catalog_source = "hardcoded"
          /\ outcome # "uncaught_fault"
    /\ vendor_file.status = "FileNotFoundError" =>
          "warning_database_not_found" \in messages
    /\ vendor_file.status = "JSONDecodeError" =>
          "error_database_json" \in messages

C5_Witness ==
    /\ vendor_file.status = "JSONDecodeError"
    /\ catalog_source = "hardcoded"
    /\ selected_battery = "TIANWU-250-233-1C"
    /\ "sizing" \in computed

\* C6: when something is required (summed energy or peak load positive),
\* the recommended count covers the energy and the power requirement and
\* no smaller positive count covers both.
C6_MinimumUnitCount ==
    ( /\ ValidSizing
      /\ (total_energy_required > 0 \/ max_power_required > 0) )
    => /\ recommended_batteries >= 1
       /\ recommended_batteries * battery_specs.energy_kWh
             >= total_energy_required
       /\ recommended_batteries * battery_specs.power_kW
             >= max_power_required
       /\ \A n \in 1..(recommended_batteries - 1) :
             ~ ( /\ n * battery_specs.energy_kWh >= total_energy_required
                 /\ n * battery_specs.power_kW >= max_power_required )

C6_Witness ==
    /\ ValidSizing
    /\ batteries_for_energy > batteries_for_power
    /\ batteries_for_power >= 1
    /\ recommended_batteries >= 2

\* C7: annual_savings is the summed MD Cost Impact times 365 over the data
\* period; when it is zero or negative neither payback nor ROI is computed
\* (no division by it happens) and the warning is shown; when it is
\* positive both are computed.
C7_SavingsGuard ==
    "annual" \in computed =>
       LET period_savings == ColumnSum(df.rows, CostCol)
       IN /\ annual_savings.den > 0
          /\ annual_savings.num * data_period_days
                = period_savings * DaysPerYear * annual_savings.den
          /\ period_savings <= 0 =>
                /\ "payback" \notin computed
                /\ "roi" \notin computed
                /\ simple_payback = NoQuotient
                /\ roi_20_year = NoQuotient
                /\ "warning_no_savings" \in messages
          /\ period_savings > 0 =>
                /\ "payback" \in computed
                /\ "roi" \in computed
                /\ "warning_no_savings" \notin messages

C7_Witness ==
    /\ "annual" \in computed
    /\ ColumnSum(df.rows, CostCol) = 0
    /\ df.rows # <<>>
    /\ "payback" \notin computed

\* C8: whenever the 20-year ROI has been evaluated, total_system_cost is
\* greater than zero.
C8_RoiCostPositive ==
    "roi" \in computed => RatPositive(total_system_cost)

\* C9: the table has 21 points, years 0..20 strictly increasing, SOH from
\* 100.00 down to 60.48; for an installed energy above zero SOH and
\* effective capacity never rise from one year to the next and capacity
\* loss never falls.
C9_DegradationMonotone ==
    ( "degradation" \in computed /\ total_energy > 0 ) =>
       /\ Len(degradation_df) = 21
       /\ degradation_df[1].Year = 0
       /\ degradation_df[21].Year = 20
       /\ degradation_df[1].SOH_x100 = 10000
       /\ degradation_df[21].SOH_x100 = 6048
       /\ \A i \in 1..20 :
             /\ degradation_df[i].Year < degradation_df[i + 1].Year
             /\ degradation_df[i].SOH_x100 >= degradation_df[i + 1].SOH_x100
             /\ degradation_df[i].Effective_x10000
                   >= degradation_df[i + 1].Effective_x10000
             /\ degradation_df[i].Loss_x10000
                   <= degradation_df[i + 1].Loss_x10000

C9_Witness ==
    /\ "degradation" \in computed
    /\ total_energy = 466
    /\ degradation_df[16].Effective_x10000 = 3725670

\* C10: an upload without the 'Energy to Shave (kWh)' column is rejected
\* with the cause shown, and neither sizing, degradation table, financial
\* results nor export is computed or offered in that pass; every step
\* after the column check runs only on a table that has the column.
C10_MissingEnergyColumn ==
    /\ ( /\ "success_file_uploaded" \in messages
         /\ pc # "column_check"
         /\ EnergyCol \notin df.columns )
       => /\ outcome = "rejected"
          /\ "error_energy_column_not_found" \in messages
          /\ computed = {}
          /\ selected_battery = ""
          /\ degradation_df = <<>>
          /\ total_system_cost = NoQuotient
          /\ report = NoReport
    /\ ( \/ computed # {}
         \/ pc \in { "select_battery", "sizing", "number_input",
                     "total_specs", "degradation", "costs", "roi",
                     "export" } )
       => EnergyCol \in df.columns

C10_Witness ==
    /\ outcome = "rejected"
    /\ EnergyCol \notin df.columns
    /\ { PeakCol, CostCol } \subseteq df.columns
    /\ df.rows # <<>>

\* q, rounded to the nearest 1/scale, is n/scale (q a positive fraction)
RoundsTo(q, n, scale) ==
    /\ (2 * n - 1) * q.den <= 2 * scale * q.num
    /\ 2 * scale * q.num < (2 * n + 1) * q.den

\* C12: battery_cost is total_energy times the cost per kWh,
\* installation_cost that times the percentage over 100, total_system_cost
\* their sum, annual_savings the summed MD Cost Impact times 365 over the
\* data period; for positive annual_savings the payback times
\* annual_savings is the total cost and the ROI is 100 times
\* (20 * annual_savings - total cost) / total cost.  A total cost of 186400
\* with savings of 1680 over 30 days gives 20440 a year, a payback that
\* rounds to 9.12 years and an ROI that rounds to 119.3 percent.
C12_FinancialFormulas ==
    /\ "costs" \in computed =>
          /\ battery_cost = RatInt(total_energy * battery_cost_per_kwh)
          /\ installation_cost.num * 100
                = battery_cost.num * installation_cost_pct
                  * installation_cost.den
          /\ RatSub(total_system_cost, battery_cost) = installation_cost
    /\ "annual" \in computed =>
          annual_savings.num * data_period_days
             = ColumnSum(df.rows, CostCol) * DaysPerYear * annual_savings.den
    /\ ("annual" \in computed /\ RatPositive(annual_savings)) =>
          /\ "payback" \in computed
          /\ "roi" \in computed
          /\ RatMul(simple_payback, annual_savings) = total_system_cost
          /\ RatAdd(RatMul(RatDiv(roi_20_year, RatInt(100)),
                           total_system_cost),
                    total_system_cost)
                = RatMul(annual_savings, RatInt(20))
    /\ ( /\ "annual" \in computed
         /\ total_system_cost = RatInt(186400)
         /\ ColumnSum(df.rows, CostCol) = 1680
         /\ data_period_days = 30 )
       => /\ annual_savings = RatInt(20440)
          /\ RoundsTo(simple_payback, 912, 100)
          /\ RoundsTo(roi_20_year, 1193, 10)

C12_Witness ==
    /\ "roi" \in computed
    /\ total_energy = 233
    /\ battery_cost_per_kwh = 800
    /\ installation_cost_pct = 0
    /\ total_system_cost = RatInt(186400)
    /\ ColumnSum(df.rows, CostCol) = 1680
    /\ data_period_days = 30
    /\ annual_savings = RatInt(20440)

\* every point of the table is derived from its own SOH and the installed
\* energy alone, and at year 15 of a 233 kWh system the unrounded values
\* are 186.2835 and 46.7165 kWh
PointwiseCapacity ==
    /\ Len(degradation_df) = 21
    /\ \A i \in 1..21 :
          /\ degradation_df[i].Year = i - 1
          /\ degradation_df[i].Effective_x10000
                = degradation_df[i].SOH_x100 * total_energy
          /\ degradation_df[i].Loss_x10000
                = total_energy * 10000 - degradation_df[i].Effective_x10000
    /\ total_energy = 233 =>
          /\ degradation_df[16].SOH_x100 = 7995
          /\ degradation_df[16].Effective_x10000 = 1862835
          /\ degradation_df[16].Loss_x10000 = 467165

\* C13 as stated: each of the 21 points has effective capacity
\* SOH/100 * installed energy and capacity loss installed energy minus
\* that; for 233 kWh at year 15 the table reports 186.28 and 46.72, rounded
\* to 2 decimals.
C13_ReportedTwoDecimals ==
    "degradation" \in computed =>
       /\ PointwiseCapacity
       /\ total_energy = 233 =>
             /\ DisplayFrame(degradation_df)[16].Effective_x10000
                   = { 1862800 }
             /\ DisplayFrame(degradation_df)[16].Loss_x10000 = { 467200 }

\* C13, amended: the same pointwise formulas; for 233 kWh at year 15 the
\* values are 186.2835 and 46.7165 and the table reports them rounded to
\* 1 decimal, 186.3 and 46.7.
C13_ReportedOneDecimal ==
    "degradation" \in computed =>
       /\ PointwiseCapacity
       /\ total_energy = 233 =>
             /\ DisplayFrame(degradation_df)[16].Effective_x10000
                   = { 1863000 }
             /\ DisplayFrame(degradation_df)[16].Loss_x10000 = { 467000 }

C13_Witness ==
    /\ "degradation" \in computed
    /\ total_energy = 233
    /\ degradation_df[16].Year = 15
    /\ degradation_df[16].Effective_x10000 = 1862835
    /\ 1863000 \in DisplayFrame(degradation_df)[16].Effective_x10000

\* SOH of the table at year y, in 1/100 percent
SohAt(y) == degradation_df[y + 1].SOH_x100

\* C14 as stated: from year 1 to year 15 SOH falls by 0.93 points every
\* year, ending at 79.95 at year 15.
C14_LinearThroughYear15 ==
    "degradation" \in computed =>
       /\ \A y \in 1..14 : SohAt(y) - SohAt(y + 1) = 93
       /\ SohAt(15) = 7995

\* C14, amended: SOH falls by 0.93 points a year from year 1 to year 14;
\* from year 14 to year 15 it falls by 1.74 points, from 81.69 to 79.95.
C14_LinearThroughYear14 ==
    "degradation" \in computed =>
       /\ SohAt(1) = 9378
       /\ \A y \in 1..13 : SohAt(y) - SohAt(y + 1) = 93
       /\ SohAt(14) = 8169
       /\ SohAt(14) - SohAt(15) = 174
       /\ SohAt(15) = 7995

C14_Witness ==
    /\ "degradation" \in computed
    /\ "export_offered" \in computed
    /\ degradation_df[15].Year = 14
    /\ degradation_df[15].SOH_x100 - degradation_df[16].SOH_x100 = 174

====
